---- MODULE Spec2Model ----
(***************************************************************************)
(* A model of wtypes (src/wtypes/wtypes.py): the schema construction       *)
(* engine (_SchemaMeta and the bracket metaclasses), the construction      *)
(* protocol (Trait.__new__), the validated containers (Dict, List) and the *)
(* reactive records (Link / Evented).                                      *)
(*                                                                         *)
(* JSON values are tagged tuples: <<"null">>, <<"bool", b>>, <<"int", n>>, *)
(* <<"str", s>>, <<"list", seq>>, <<"dict", f>>.  Inside the interpreter   *)
(* a dict is an object with identity: <<"ref", i>> names the cell heap[i]. *)
(***************************************************************************)
EXTENDS Integers, Sequences, FiniteSets, TLC

VARIABLES heap, types, held, last, nops, inst, nuses, recs, log, munch

vars == <<heap, types, held, last, nops, inst, nuses, recs, log, munch>>

\* ------------------------------------------------------------ JSON values
JNull == <<"null">>
JBool(b) == <<"bool", b>>
JInt(n) == <<"int", n>>
JStr(s) == <<"str", s>>
JList(q) == <<"list", q>>
JDict(f) == <<"dict", f>>
JRef(i) == <<"ref", i>>
Kind(v) == v[1]
EmptyMap == [k \in {} |-> JNull]
Upd(f, g) == g @@ f

\* The pure JSON tree a heap value stands for.
RECURSIVE Deref(_, _)
Deref(h, v) ==
    IF Kind(v) = "ref"
    THEN JDict([k \in DOMAIN h[v[2]] |-> Deref(h, h[v[2]][k])])
    ELSE IF Kind(v) = "list"
    THEN JList([i \in 1..Len(v[2]) |-> Deref(h, v[2][i])])
    ELSE v

\* A structural copy of a tree into fresh cells.
RECURSIVE StoreVal(_, _), StoreKeys(_, _, _, _), StoreSeq(_, _, _, _)
StoreVal(h, t) ==
    IF Kind(t) = "dict"
    THEN LET r == StoreKeys(h, t[2], DOMAIN t[2], EmptyMap)
         IN  [h |-> Append(r.h, r.cell), v |-> JRef(Len(r.h) + 1)]
    ELSE IF Kind(t) = "list"
    THEN LET r == StoreSeq(h, t[2], 1, <<>>)
         IN  [h |-> r.h, v |-> JList(r.out)]
    ELSE [h |-> h, v |-> t]
StoreKeys(h, f, ks, cell) ==
    IF ks = {} THEN [h |-> h, cell |-> cell]
    ELSE LET k == CHOOSE x \in ks : TRUE
             r == StoreVal(h, f[k])
         IN  StoreKeys(r.h, f, ks \ {k}, Upd(cell, k :> r.v))
StoreSeq(h, q, i, out) ==
    IF i > Len(q) THEN [h |-> h, out |-> out]
    ELSE LET r == StoreVal(h, q[i])
         IN  StoreSeq(r.h, q, i + 1, Append(out, r.v))

\* ------------------------------------------- the Draft-07 meta-schema
simpleTypes == {"array", "boolean", "integer", "null", "number", "object", "string"}

IsUniqueSeq(q) == \A i, j \in 1..Len(q) : i # j => q[i] # q[j]
\* Whether a JSON tree is a valid Draft-07 schema document, keyword by keyword
\* as the meta-schema declares them; a keyword it does not declare is free.
RECURSIVE MetaValid(_), MetaKeyword(_, _)
MetaValid(s) ==
    \/ Kind(s) = "bool"
    \/ /\ Kind(s) = "dict"
       /\ \A k \in DOMAIN s[2] : MetaKeyword(k, s[2][k])
MetaKeyword(k, v) ==
    CASE k = "type" ->
            \/ Kind(v) = "str" /\ v[2] \in simpleTypes
            \/ /\ Kind(v) = "list" /\ Len(v[2]) >= 1 /\ IsUniqueSeq(v[2])
               /\ \A i \in 1..Len(v[2]) :
                      Kind(v[2][i]) = "str" /\ v[2][i][2] \in simpleTypes
      [] k \in {"minimum", "maximum", "exclusiveMinimum", "exclusiveMaximum"} ->
            Kind(v) = "int"
      [] k = "multipleOf" -> Kind(v) = "int" /\ v[2] > 0
      [] k \in {"minLength", "maxLength", "minItems", "maxItems",
                "minProperties", "maxProperties"} ->
            Kind(v) = "int" /\ v[2] >= 0
      [] k \in {"title", "description", "pattern", "format",
                "contentMediaType", "contentEncoding"} ->
            Kind(v) = "str"
      [] k = "uniqueItems" -> Kind(v) = "bool"
      [] k = "required" -> /\ Kind(v) = "list"
                           /\ \A i \in 1..Len(v[2]) : Kind(v[2][i]) = "str"
                           /\ IsUniqueSeq(v[2])
      [] k \in {"properties", "patternProperties"} ->
            Kind(v) = "dict" /\ \A p \in DOMAIN v[2] : MetaValid(v[2][p])
      [] k \in {"additionalProperties", "additionalItems", "contains", "not",
                "if", "then", "else", "propertyNames"} ->
            MetaValid(v)
      [] k = "items" ->
            \/ MetaValid(v)
            \/ /\ Kind(v) = "list" /\ Len(v[2]) >= 1
               /\ \A i \in 1..Len(v[2]) : MetaValid(v[2][i])
      [] k \in {"anyOf", "allOf", "oneOf"} ->
            /\ Kind(v) = "list" /\ Len(v[2]) >= 1
            /\ \A i \in 1..Len(v[2]) : MetaValid(v[2][i])
      [] k \in {"enum", "examples"} -> Kind(v) = "list"
             [] OTHER -> TRUE

\* Python truthiness of a JSON value (the `or` of _SchemaMeta.__new__).
Truthy(v) ==
    CASE Kind(v) = "null" -> FALSE
      [] Kind(v) = "bool" -> v[2]
      [] Kind(v) = "int" -> v[2] # 0
      [] Kind(v) = "str" -> v[2] # ""
      [] Kind(v) \in {"list", "tuple"} -> Len(v[2]) > 0
      [] Kind(v) = "dict" -> DOMAIN v[2] # {}
             [] OTHER -> TRUE

\* ---------------------------------------------------------- the Types
\* A world is the interpreter's heap of dict objects and its class objects.
\* A class: name (a sequence of words, the class name being their
\* concatenation), meta (its metaclass), mro (the classes of its resolution
\* order that carry a `_schema`, itself first), schema (its `_schema`
\* attribute), tag (`_type`), flags (the mixins among its bases), ctor (the
\* first `__new__` of its resolution order), native (the built-in it
\* subclasses), ann (`cls.__annotations__`), dflt (the annotated names the
\* class has an attribute for), user (whether the caller holds a reference).
World(h, ts) == [heap |-> h, types |-> ts]
Raise(w, e) == [w |-> w, ret |-> 0, err |-> e]
Absent == <<"absent">>
NoAnn == [order |-> <<>>, of |-> EmptyMap]

RECURSIVE Join(_)
Join(name) == IF name = <<>> THEN "" ELSE Head(name) \o Join(Tail(name))

\* _lower_key of a non-empty class name.
LowerKey(name) ==
    Join(<<CASE Head(name) = "Properties" -> "properties"
             [] Head(name) = "Required" -> "required"
             [] Head(name) = "Minimum" -> "minimum"
             [] Head(name) = "Default" -> "default"
             [] Head(name) = "Title" -> "title"
             [] Head(name) = "Items" -> "items"
             [] Head(name) = "MinItems" -> "minItems"
             [] Head(name) = "Not" -> "not"
             [] Head(name) = "AnyOf" -> "anyOf"
             [] Head(name) = "AllOf" -> "allOf"
             [] Head(name) = "OneOf" -> "oneOf"
             [] Head(name) = "Enum" -> "enum"
             [] Head(name) = "Integer" -> "integer"
             [] Head(name) = "String" -> "string"
             [] Head(name) = "Dict" -> "dict"
             [] Head(name) = "List" -> "list"
             [] Head(name) = "Tuple" -> "tuple"
             [] Head(name) = "Trait" -> "trait"
             [] OTHER -> Head(name)>> \o Tail(name))

\* The class with the module-level name `word`.
Named(w, word) ==
    CHOOSE i \in 1..Len(w.types) : w.types[i].name = <<word>> /\ w.types[i].module

\* _python_to_wtype of a Python built-in.
PythonToWtype(w, py) ==
    CASE py = "str" -> Named(w, "String")
      [] py = "int" -> Named(w, "Integer")
      [] py = "dict" -> Named(w, "Dict")
      [] py = "list" -> Named(w, "List")
      [] py = "tuple" -> Named(w, "List")

\* _get_schema_from_typeish: a mapping or a sequence is rebuilt around the
\* fragments of its members, a class contributes its `_schema` object itself,
\* anything else is a literal.
RECURSIVE Typeish(_, _), TypeishKeys(_, _, _, _), TypeishSeq(_, _, _, _)
Typeish(w, o) ==
    CASE Kind(o) = "dict" ->
            LET r == TypeishKeys(w, o[2], DOMAIN o[2], EmptyMap)
            IN  [h |-> Append(r.h, r.cell), v |-> JRef(Len(r.h) + 1)]
      [] Kind(o) \in {"list", "tuple"} ->
            LET r == TypeishSeq(w, o[2], 1, <<>>)
            IN  [h |-> r.h, v |-> JList(r.out)]
      [] Kind(o) = "ref" ->
            LET r == TypeishKeys(w, w.heap[o[2]], DOMAIN w.heap[o[2]], EmptyMap)
            IN  [h |-> Append(r.h, r.cell), v |-> JRef(Len(r.h) + 1)]
      [] Kind(o) = "py" ->
            [h |-> w.heap, v |-> w.types[PythonToWtype(w, o[2])].schema]
      [] Kind(o) = "type" -> [h |-> w.heap, v |-> w.types[o[2]].schema]
             [] OTHER -> [h |-> w.heap, v |-> o]
TypeishKeys(w, f, ks, cell) ==
    IF ks = {} THEN [h |-> w.heap, cell |-> cell]
    ELSE LET k == CHOOSE x \in ks : TRUE
             r == Typeish(w, f[k])
         IN  TypeishKeys(World(r.h, w.types), f, ks \ {k}, Upd(cell, k :> r.v))
TypeishSeq(w, q, i, out) ==
    IF i > Len(q) THEN [h |-> w.heap, out |-> out]
    ELSE LET r == Typeish(w, q[i])
         IN  TypeishSeq(World(r.h, w.types), q, i + 1, Append(out, r.v))

\* _construct_title.
ConstructTitle(w, t) ==
    IF "_NoTitle" \in w.types[t].flags THEN <<>>
    ELSE LET cell == w.heap[w.types[t].schema[2]]
         IN  IF "title" \in DOMAIN cell THEN <<cell["title"][2]>>
             ELSE w.types[t].name

\* The effective schema of a class, as a JSON tree.
Schema(w, t) == Deref(w.heap, w.types[t].schema)

\* The validation of __new__ left out: every merged schema is accepted.
SchemaAccepted(s) == TRUE
\* jsonschema.validate(cls._schema, cls._meta_schema, ...) of __new__.
SchemaIsValid(s) == MetaValid(s)

\* _merge_schema: a fresh Munch updated with Munch.fromDict of the `_schema`
\* of every class of the resolution order, oldest first.
RECURSIVE MergeSchema(_, _, _, _)
MergeSchema(h, attrs, i, cell) ==
    IF i > Len(attrs) THEN [h |-> h, cell |-> cell]
    ELSE IF Kind(attrs[i]) # "ref" THEN MergeSchema(h, attrs, i + 1, cell)
    ELSE LET t == Deref(h, attrs[i])
             r == StoreKeys(h, t[2], DOMAIN t[2], EmptyMap)
         IN  MergeSchema(r.h, attrs, i + 1, Upd(cell, r.cell))

Reverse(q) == [i \in 1..Len(q) |-> q[Len(q) + 1 - i]]
Without(f, k) == [x \in DOMAIN f \ {k} |-> f[x]]

\* What a class statement (or type(name, bases, namespace, **schema)) gives.
Decl(name, tail, ns, kw) ==
    [name |-> name, meta |-> "", tail |-> tail, ns |-> ns, kw |-> kw,
     tag |-> Absent, flags |-> {}, ctor |-> "", native |-> "",
     hasAnn |-> FALSE, ann |-> NoAnn, dflt |-> {}, module |-> FALSE]

\* The copy left out: the same object is handed on.
SameObject(h, v) == [h |-> h, v |-> v]
\* copy.deepcopy of a schema.
DeepCopy(h, v) == StoreVal(h, Deref(h, v))

RECURSIVE SchemaMetaNew(_, _), SchemaMetaNewMerge(_, _, _), InitSubclass(_, _, _, _), Create(_, _, _, _),
          Add(_, _, _), ContainerGetItem(_, _, _),
          InitSubclassProperties(_, _, _, _), InitSubclassUpdate(_, _, _, _)

\* _Object.__init_subclass__: the class gets its own deep copy of the schema
\* it inherits, the annotations are folded into `properties`, and the
\* annotated names the class has no attribute for become `required`.
InitSubclass(w, attr, ann, dflt) ==
    IF Kind(attr) # "ref" THEN [w |-> w, attr |-> attr, err |-> "AttributeError"]
    ELSE InitSubclassProperties(w.types, DeepCopy(w.heap, attr), ann, dflt)
\* ... `cls._schema = copy.deepcopy(cls._schema)` is c1; Properties[annotations]
InitSubclassProperties(ts, c1, ann, dflt) ==
    InitSubclassUpdate(c1.v,
        ContainerGetItem(World(c1.h, ts), Named(World(c1.h, ts), "Properties"),
                         <<"dict", ann.of>>),
        ann, dflt)
\* ... the two in-place updates of the copy (cell own[2]) with the schema of p.
InitSubclassUpdate(own, p, ann, dflt) ==
    IF p.err # "" THEN [w |-> p.w, attr |-> own, err |-> p.err]
    ELSE
    LET h2 == p.w.heap
        pcell == h2[p.w.types[p.ret].schema[2]]
        h3 == IF "properties" \in DOMAIN h2[own[2]]
              THEN [h2 EXCEPT ![h2[own[2]]["properties"][2]] =
                        Upd(@, h2[pcell["properties"][2]])]
              ELSE [h2 EXCEPT ![own[2]] = Upd(@, pcell)]
        required == SelectSeq(ann.order, LAMBDA k : k \notin dflt)
    IN  [w |-> World(IF required # <<>>
                     THEN [h3 EXCEPT ![own[2]] = Upd(@, "required" :>
                               JList([i \in 1..Len(required) |-> JStr(required[i])]))]
                     ELSE h3,
                     p.w.types),
         attr |-> own, err |-> ""]

\* What the class statement inherits: its first base, the mixin flags of its
\* bases, `__annotations__` and the annotated names with a class attribute.
FirstBase(w, c) ==
    IF c.tail # <<>> THEN w.types[Head(c.tail)]
    ELSE [schema |-> JNull, meta |-> "", ctor |-> "", native |-> "object",
          tag |-> JStr("http://json-schema.org/draft-07/schema#/properties/"), ann |-> NoAnn, dflt |-> {}]
InheritedFlags(w, c) == UNION {w.types[c.tail[i]].flags : i \in 1..Len(c.tail)}
AnnotationsOf(w, c) == IF c.hasAnn THEN c.ann ELSE FirstBase(w, c).ann
DefaultsOf(w, c) == c.dflt \cup FirstBase(w, c).dflt

\* The class object type.__new__ makes, before its schema is merged;
\* `cls._type = schema.pop("type", None) or cls._type`.
ClassObject(w, c, tid) ==
    [name |-> c.name,
     meta |-> IF c.meta # "" THEN c.meta ELSE FirstBase(w, c).meta,
     mro |-> <<tid>> \o c.tail,
     schema |-> JNull,
     tag |-> IF "type" \in DOMAIN c.kw /\ Truthy(c.kw["type"]) THEN c.kw["type"]
             ELSE IF c.tag # Absent THEN c.tag ELSE FirstBase(w, c).tag,
     flags |-> c.flags \cup InheritedFlags(w, c),
     ctor |-> IF c.ctor # "" THEN c.ctor ELSE FirstBase(w, c).ctor,
     native |-> IF c.native # "" THEN c.native ELSE FirstBase(w, c).native,
     ann |-> AnnotationsOf(w, c), dflt |-> DefaultsOf(w, c), module |-> c.module]

\* The merged schema object with the keywords applied, as a new cell.
MergedWith(m, kw) == Append(m.h, Upd(m.cell, kw))

\* The end of _SchemaMeta.__new__: jsonschema.validate(cls._schema,
\* cls._meta_schema), then `return cls`; h2 ends with the merged schema.
SchemaMetaNewValidate(ts, cls, h2) ==
    IF SchemaIsValid(Deref(h2, JRef(Len(h2))))
    THEN [w |-> World(h2, Append(ts, [cls EXCEPT !.schema = JRef(Len(h2))])),
          ret |-> Len(ts) + 1, err |-> ""]
    ELSE Raise(World(h2, ts), "ValidationError")

\* _SchemaMeta.__new__: the class object is made (which runs
\* __init_subclass__), `type` is popped from the keywords into the tag, the
\* schema is merged over the resolution order, the keywords are applied on top
\* and the result is validated against the meta-schema; the class is returned
\* only when that validation passes.
SchemaMetaNew(w, c) ==
    SchemaMetaNewMerge(w, c,
        IF "_Object" \in InheritedFlags(w, c)
        THEN InitSubclass(w, IF c.ns = Absent THEN FirstBase(w, c).schema ELSE c.ns,
                          AnnotationsOf(w, c), DefaultsOf(w, c))
        ELSE [w |-> w, attr |-> IF c.ns = Absent THEN FirstBase(w, c).schema ELSE c.ns,
              err |-> ""])
\* ... cls._merge_schema() and cls._schema.update(**schema), r1 being what
\* super().__new__ left.
SchemaMetaNewMerge(w, c, r1) ==
    IF r1.err # "" THEN Raise(r1.w, r1.err)
    ELSE SchemaMetaNewValidate(r1.w.types, ClassObject(w, c, Len(r1.w.types) + 1),
             MergedWith(MergeSchema(r1.w.heap,
                            Reverse([i \in 1..Len(c.tail) |-> r1.w.types[c.tail[i]].schema])
                                \o <<r1.attr>>,
                            1, EmptyMap),
                        IF "type" \in DOMAIN c.kw THEN Without(c.kw, "type") ELSE c.kw))
\* _SchemaMeta.create: a subclass of the receiver whose namespace holds a deep
\* copy of the receiver's schema.
Create(w, t, name, kw) ==
    LET cp == DeepCopy(w.heap, w.types[t].schema)
    IN  SchemaMetaNew(World(cp.h, w.types), Decl(name, w.types[t].mro, cp.v, kw))

\* _SchemaMeta.__add__: create(title + title, **schema of the operand).
Add(w, t, o) ==
    IF Kind(o) \notin {"type", "py"} THEN Raise(w, "AttributeError")
    ELSE LET u == IF Kind(o) = "type" THEN o[2] ELSE PythonToWtype(w, o[2])
         IN  Create(w, t, ConstructTitle(w, t) \o ConstructTitle(w, u),
                    w.heap[w.types[u].schema[2]])

\* `cls + r`, r being the outcome of the expression that makes the operand:
\* its exception propagates.
AddTo(t, r) == IF r.err # "" THEN r ELSE Add(r.w, t, <<"type", r.ret>>)

\* _ContainerType.__getitem__: the fragment of the operand is merged with the
\* value the keyword already has into `object`, and the receiver is added to a
\* Trait created with the keyword set to `schema`.
ContainerGetItem(w, t, o) ==
    IF w.types[t].name = <<>> THEN Raise(w, "IndexError")
    ELSE
    LET schema_key == LowerKey(w.types[t].name)
        r == Typeish(w, o)
        w1 == World(r.h, w.types)
        cell == w1.heap[w1.types[t].schema[2]]
        unmergeable ==
            CASE Kind(o) = "dict" ->
                    schema_key \in DOMAIN cell /\ Kind(cell[schema_key]) # "ref"
              [] Kind(o) = "tuple" ->
                    schema_key \in DOMAIN cell /\ Kind(cell[schema_key]) # "list"
              [] OTHER -> FALSE
    IN  IF unmergeable THEN Raise(w1, "TypeError")
        ELSE AddTo(t, Create(w1, Named(w1, "Trait"), <<schema_key>>, schema_key :> r.v))

\* _ConstType.__getitem__: create(name, keyword = fragment of the operand),
\* the fragment being extracted twice.
ConstGetItem(w, t, o) ==
    IF w.types[t].name = <<>> THEN Raise(w, "IndexError")
    ELSE LET r1 == Typeish(w, o)
             r2 == Typeish(World(r1.h, w.types), r1.v)
         IN  Create(World(r2.h, w.types), t, w.types[t].name,
                    LowerKey(w.types[t].name) :> r2.v)


\* _SchemaMeta.__neg__, __and__, __sub__, __or__.
Neg(w, t) == ContainerGetItem(w, Named(w, "Not"), <<"type", t>>)
And(w, t, o) == ContainerGetItem(w, Named(w, "AllOf"), <<"tuple", <<<<"type", t>>, o>>>>)
Sub(w, t, o) == ContainerGetItem(w, Named(w, "AnyOf"), <<"tuple", <<<<"type", t>>, o>>>>)
Or(w, t, o) == ContainerGetItem(w, Named(w, "OneOf"), <<"tuple", <<<<"type", t>>, o>>>>)

\* `cls >= object`: `cls + Minimum[object]`, MinLength and MinItems for the
\* string and list classes.
Ge(w, t, o) ==
    AddTo(t, ConstGetItem(w, Named(w, CASE w.types[t].meta = "_NumericSchema" -> "Minimum"
                                        [] w.types[t].meta = "_StringSchema" -> "MinLength"
                                        [] w.types[t].meta = "_ListSchema" -> "MinItems"), o))

\* `cls + Marker[AnyOf[object]]`, a being the outcome of AnyOf[object].
AddWrapped(t, marker, a) ==
    IF a.err # "" THEN a
    ELSE AddTo(t, ContainerGetItem(a.w, Named(a.w, marker), <<"type", a.ret>>))

\* _ObjectSchema.__getitem__ and _ListSchema.__getitem__.
ObjectGetItem(w, t, o) ==
    IF Kind(o) = "dict"
    THEN AddTo(t, ContainerGetItem(w, Named(w, "Properties"), o))
    ELSE AddWrapped(t, "AdditionalProperties",
             ContainerGetItem(w, Named(w, "AnyOf"),
                              IF Kind(o) = "tuple" THEN o ELSE <<"tuple", <<o>>>>))
ListGetItem(w, t, o) ==
    IF Kind(o) = "tuple" /\ "Tuple" \notin w.types[t].flags
    THEN AddWrapped(t, "Items", ContainerGetItem(w, Named(w, "AnyOf"), o))
    ELSE AddTo(t, ContainerGetItem(w, Named(w, "Items"),
                      IF "Tuple" \in w.types[t].flags /\ Kind(o) \in {"tuple", "list"}
                      THEN <<"list", o[2]>> ELSE o))

GetItem(w, t, o) ==
    CASE w.types[t].meta = "_ConstType" -> ConstGetItem(w, t, o)
      [] w.types[t].meta = "_ContainerType" -> ContainerGetItem(w, t, o)
      [] w.types[t].meta = "_ObjectSchema" -> ObjectGetItem(w, t, o)
      [] w.types[t].meta = "_ListSchema" -> ListGetItem(w, t, o)

\* A class statement `class name(base): <annotations>`.
Subclass(w, t, name, ann, dflt) ==
    SchemaMetaNew(w, [Decl(name, w.types[t].mro, Absent, EmptyMap)
                        EXCEPT !.hasAnn = ann.order # <<>>, !.ann = ann, !.dflt = dflt])

TypeOnly(name) == JDict("type" :> JStr(name))
Marker(name, meta, flags, ctor) ==
    [name |-> name, meta |-> meta, bases |-> <<"Trait">>, body |-> Absent,
     tag |-> Absent, flags |-> flags, ctor |-> ctor, native |-> ""]
Value(name, meta, bases, body, flags, ctor, native) ==
    [name |-> name, meta |-> meta, bases |-> bases, body |-> body,
     tag |-> Absent, flags |-> flags, ctor |-> ctor, native |-> native]
ModuleClasses == <<
    [name |-> "Trait", meta |-> "_SchemaMeta", bases |-> <<>>, body |-> JNull,
     tag |-> JStr("http://www.w3.org/2000/01/rdf-schema#Resource"), flags |-> {}, ctor |-> "Trait", native |-> "object"],
    Marker("Default", "_ConstType", {"_NoInit"}, "_NoInit"),
    Marker("Title", "_ConstType", {"_NoInit", "_NoTitle"}, "_NoInit"),
    Marker("Const", "_ConstType", {"_NoInit"}, "_NoInit"),
    Value("Bool", "_SchemaMeta", <<"Trait">>, TypeOnly("boolean"), {}, "Bool", "bool"),
    Value("Null", "_SchemaMeta", <<"Trait">>, TypeOnly("null"), {}, "Null", "none"),
    Value("Integer", "_NumericSchema", <<"Trait">>, TypeOnly("integer"), {}, "", "int"),
    Value("Float", "_NumericSchema", <<"Trait">>, TypeOnly("number"), {}, "", "float"),
    Marker("Minimum", "_ConstType", {"_NoInit"}, "_NoInit"),
    Marker("Properties", "_ContainerType", {"_NoInit", "_NoTitle"}, "Trait"),
    Value("_Object", "_ObjectSchema", <<>>, TypeOnly("object"), {"_Object"}, "object", "object"),
    Value("Dict", "_ObjectSchema", <<"Trait", "_Object">>, Absent, {}, "Dict", "dict"),
    Value("Bunch", "_ObjectSchema", <<"Dict">>, Absent, {}, "", "munch"),
    Marker("AdditionalProperties", "_ContainerType", {"_NoInit", "_NoTitle"}, "Trait"),
    Marker("Required", "_ContainerType", {"_NoInit", "_NoTitle"}, "Trait"),
    Value("String", "_StringSchema", <<"Trait">>, TypeOnly("string"), {}, "", "str"),
    Marker("MinLength", "_ConstType", {"_NoInit", "_NoTitle"}, "Trait"),
    Value("List", "_ListSchema", <<"Trait">>, TypeOnly("array"), {}, "List", "list"),
    Value("Tuple", "_ListSchema", <<"List">>, Absent, {"Tuple"}, "", ""),
    Marker("Items", "_ContainerType", {"_NoInit", "_NoTitle"}, "Trait"),
    Marker("MinItems", "_ConstType", {"_NoInit", "_NoTitle"}, "Trait"),
    Marker("Not", "_ContainerType", {}, "Trait"),
    Marker("AnyOf", "_ContainerType", {"_NoInit"}, "Trait"),
    Marker("AllOf", "_ContainerType", {"_NoInit"}, "Trait"),
    Marker("OneOf", "_ContainerType", {"_NoInit"}, "Trait"),
    Marker("Enum", "_ConstType", {}, "Trait"),
    Value("Evented", "_ObjectSchema", <<"Bunch">>, Absent, {}, "", "")
>>

\* The resolution order below a class with these bases (the classes that carry
\* a `_schema`): each base followed by its own order, without repetition.
RECURSIVE TailOf(_, _, _)
TailOf(w, bases, acc) ==
    IF bases = <<>> THEN acc
    ELSE LET m == w.types[Named(w, Head(bases))].mro
         IN  TailOf(w, Tail(bases),
                    acc \o SelectSeq(m, LAMBDA x : \A i \in 1..Len(acc) : acc[i] # x))

\* One class statement of the module.
Declare(w, d) ==
    LET b == IF d.body = Absent \/ d.body = JNull THEN [h |-> w.heap, v |-> d.body]
             ELSE StoreVal(w.heap, d.body)
        w1 == World(b.h, w.types)
    IN  SchemaMetaNew(w1, [Decl(<<d.name>>, TailOf(w1, d.bases, <<>>), b.v, EmptyMap)
                             EXCEPT !.meta = d.meta, !.tag = d.tag, !.flags = d.flags,
                                    !.ctor = d.ctor, !.native = d.native,
                                    !.module = TRUE]).w

\* The class statements run in order; w1 is the interpreter after the i-th.
RECURSIVE Import(_, _), ImportNext(_, _, _)
Import(w, i) ==
    IF i > Len(ModuleClasses) THEN w
    ELSE ImportNext(Len(w.types), Declare(w, ModuleClasses[i]), i)
ImportNext(n, w1, i) == IF Len(w1.types) > n THEN Import(w1, i + 1) ELSE w1

\* The interpreter once the module is imported.
Module == Import(World(<<>>, <<>>), 1)

\* ------------------------------------------- validating an instance
\* A Python value is a JSON value, or a tuple <<"tuple", seq>>, a float
\* <<"float", n>> (of integral value n) or a bare object <<"object">>.
\* The strings that are values have at most one character.
StrLen(x) == IF x = "" THEN 0 ELSE 1

\* The `type` keyword: the Draft-07 type checker of jsonschema (a bool is no
\* number, a tuple is no array).
IsType(v, name) ==
    CASE name = "integer" -> Kind(v) = "int"
      [] name = "number" -> Kind(v) \in {"int", "float"}
      [] name = "string" -> Kind(v) = "str"
      [] name = "boolean" -> Kind(v) = "bool"
      [] name = "null" -> Kind(v) = "null"
      [] name = "array" -> Kind(v) = "list"
      [] name = "object" -> Kind(v) = "dict"
             [] OTHER -> FALSE

\* jsonschema.validate(instance, schema): whether the instance passes every
\* keyword of the schema; a keyword constrains only the kind of value it is
\* about.
RECURSIVE Valid(_, _), KeywordHolds(_, _, _, _)
Valid(v, s) ==
    IF Kind(s) = "bool" THEN s[2]
    ELSE \A k \in DOMAIN s[2] : KeywordHolds(k, s[2][k], v, s[2])
KeywordHolds(k, a, v, sch) ==
    CASE k = "type" ->
            IF Kind(a) = "str" THEN IsType(v, a[2])
            ELSE \E i \in 1..Len(a[2]) : IsType(v, a[2][i][2])
      [] k = "minimum" -> Kind(v) \in {"int", "float"} => v[2] >= a[2]
      [] k = "maximum" -> Kind(v) \in {"int", "float"} => v[2] <= a[2]
      [] k = "exclusiveMinimum" -> Kind(v) \in {"int", "float"} => v[2] > a[2]
      [] k = "exclusiveMaximum" -> Kind(v) \in {"int", "float"} => v[2] < a[2]
      [] k = "minLength" -> Kind(v) = "str" => StrLen(v[2]) >= a[2]
      [] k = "maxLength" -> Kind(v) = "str" => StrLen(v[2]) <= a[2]
      [] k = "enum" -> \E i \in 1..Len(a[2]) : a[2][i] = v
      [] k = "const" -> a = v
      [] k = "required" ->
            Kind(v) = "dict" => \A i \in 1..Len(a[2]) : a[2][i][2] \in DOMAIN v[2]
      [] k = "properties" ->
            Kind(v) = "dict" =>
                \A p \in DOMAIN a[2] \cap DOMAIN v[2] : Valid(v[2][p], a[2][p])
      [] k = "additionalProperties" ->
            Kind(v) = "dict" =>
                \A p \in DOMAIN v[2] \ (IF "properties" \in DOMAIN sch
                                        THEN DOMAIN sch["properties"][2] ELSE {}) :
                    Valid(v[2][p], a)
      [] k = "items" ->
            Kind(v) = "list" =>
                IF Kind(a) = "list"
                THEN \A i \in 1..Len(v[2]) : i <= Len(a[2]) => Valid(v[2][i], a[2][i])
                ELSE \A i \in 1..Len(v[2]) : Valid(v[2][i], a)
      [] k = "minItems" -> Kind(v) = "list" => Len(v[2]) >= a[2]
      [] k = "maxItems" -> Kind(v) = "list" => Len(v[2]) <= a[2]
      [] k = "uniqueItems" -> (Kind(v) = "list" /\ a[2]) => IsUniqueSeq(v[2])
      [] k = "not" -> ~Valid(v, a)
      [] k = "anyOf" -> \E i \in 1..Len(a[2]) : Valid(v, a[2][i])
      [] k = "allOf" -> \A i \in 1..Len(a[2]) : Valid(v, a[2][i])
      [] k = "oneOf" -> Cardinality({i \in 1..Len(a[2]) : Valid(v, a[2][i])}) = 1
             [] OTHER -> TRUE

\* _SchemaMeta.validate.
Validate(w, t, v) == Valid(v, Schema(w, t))

\* ------------------------------------------------ constructing a value
\* The outcome of a call: the class of the instance (0 for a value that is no
\* instance of a Type: a bool, None) and its value, or the exception.
Made(cls, val) == [cls |-> cls, val |-> val, err |-> ""]
Failed(e) == [cls |-> 0, val |-> JNull, err |-> e]

\* Trait._resolve_defaults on a schema tree.
ResolveDefaults(s, args) ==
    IF args # <<>> THEN args
    ELSE IF "default" \in DOMAIN s[2] THEN <<s[2]["default"]>>
    ELSE IF "properties" \in DOMAIN s[2]
    THEN <<JDict([k \in {p \in DOMAIN s[2]["properties"][2] :
                             "default" \in DOMAIN s[2]["properties"][2][p][2]} |->
                    s[2]["properties"][2][k][2]["default"]])>>
    ELSE <<>>

\* _object_to_webtype.
ObjectToWebtype(w, v) ==
    CASE Kind(v) = "dict" -> Named(w, "Dict")
      [] Kind(v) = "str" -> Named(w, "String")
      [] Kind(v) = "tuple" -> Named(w, "Tuple")
      [] Kind(v) = "list" -> Named(w, "List")
      [] Kind(v) = "bool" -> Named(w, "Bool")
      [] Kind(v) \in {"int", "float"} -> Named(w, "Float")
      [] Kind(v) = "null" -> Named(w, "Null")
             [] OTHER -> Named(w, "Trait")

\* The dispatch of markers left out: no class counts as a marker.
NeverConstType(meta) == FALSE
\* isinstance(cls, _ConstType): the metaclass is _ConstType or _ContainerType.
IsConstType(meta) == meta \in {"_ConstType", "_ContainerType"}

\* The built-in conversions int(x), float(x), str(x), dict(x), list(x).
ToInt(v) ==
    CASE Kind(v) \in {"int", "float"} -> Made(0, JInt(v[2]))
      [] Kind(v) = "bool" -> Made(0, JInt(IF v[2] THEN 1 ELSE 0))
      [] Kind(v) = "str" -> Failed("ValueError")
             [] OTHER -> Failed("TypeError")
ToFloat(v) ==
    CASE Kind(v) \in {"int", "float"} -> Made(0, <<"float", v[2]>>)
      [] Kind(v) = "bool" -> Made(0, <<"float", IF v[2] THEN 1 ELSE 0>>)
      [] Kind(v) = "str" -> Failed("ValueError")
             [] OTHER -> Failed("TypeError")
ToDict(v) ==
    CASE Kind(v) = "dict" -> Made(0, v)
      [] Kind(v) \in {"list", "tuple"} ->
            IF v[2] = <<>> THEN Made(0, JDict(EmptyMap))
            ELSE IF Kind(v[2][1]) = "str" THEN Failed("ValueError")
            ELSE Failed("TypeError")
      [] Kind(v) = "str" ->
            IF v[2] = "" THEN Made(0, JDict(EmptyMap)) ELSE Failed("ValueError")
             [] OTHER -> Failed("TypeError")
RECURSIVE KeysOf(_)
KeysOf(ks) ==
    IF ks = {} THEN <<>>
    ELSE LET k == CHOOSE x \in ks : TRUE IN <<JStr(k)>> \o KeysOf(ks \ {k})
ToList(v) ==
    CASE Kind(v) \in {"list", "tuple"} -> Made(0, JList(v[2]))
      [] Kind(v) = "str" -> Made(0, JList(IF v[2] = "" THEN <<>> ELSE <<v>>))
      [] Kind(v) = "dict" -> Made(0, JList(KeysOf(DOMAIN v[2])))
             [] OTHER -> Failed("TypeError")

\* `super().__new__(cls, *args)` and `self.__init__(*args)` of Trait.__new__:
\* the built-in the class subclasses makes the value; a marker whose next
\* __new__ is _NoInit's refuses.
NativeNew(c, a) ==
    CASE "_NoInit" \in c.flags -> Failed("TypeError")
      [] c.native = "int" -> IF a = <<>> THEN Made(0, JInt(0)) ELSE ToInt(a[1])
      [] c.native = "float" ->
            IF a = <<>> THEN Made(0, <<"float", 0>>) ELSE ToFloat(a[1])
      [] c.native = "str" ->
            IF a = <<>> THEN Made(0, JStr(""))
            ELSE IF Kind(a[1]) = "str" THEN Made(0, a[1])
            ELSE Made(0, JStr("_"))  \* the text of a value that is no string
      [] c.native \in {"dict", "munch"} ->
            IF a = <<>> THEN Made(0, JDict(EmptyMap)) ELSE ToDict(a[1])
      [] c.native = "list" -> IF a = <<>> THEN Made(0, JList(<<>>)) ELSE ToList(a[1])
             [] OTHER -> IF a = <<>> THEN Made(0, <<"object">>) ELSE Failed("TypeError")

\* type.__call__ after __new__: `__init__(*args)` runs on what __new__
\* returned when that is an instance of the class called.  list.__init__
\* empties the list and fills it from its argument, dict.__init__ updates the
\* dict, the other built-ins have object.__init__.
TypeInit(w, t, args, r) ==
    IF r.err # "" \/ r.cls = 0 THEN r
    ELSE IF \A i \in 1..Len(w.types[r.cls].mro) : w.types[r.cls].mro[i] # t THEN r
    ELSE IF w.types[r.cls].native = "list"
    THEN IF args = <<>> THEN Made(r.cls, JList(<<>>)) ELSE IF ToList(args[1]).err # "" THEN ToList(args[1])
         ELSE Made(r.cls, ToList(args[1]).val)
    ELSE IF w.types[r.cls].native \in {"dict", "munch"}
    THEN IF args = <<>> THEN r ELSE IF ToDict(args[1]).err # "" THEN ToDict(args[1])
         ELSE Made(r.cls, JDict(Upd(r.val[2], ToDict(args[1]).val[2])))
    ELSE r

RECURSIVE TypeCall(_, _, _), New(_, _, _), TraitNew(_, _, _),
          TraitNewResolved(_, _, _), TraitNewSelf(_, _, _, _)

\* The end of Trait.__new__: `args or cls.validate(self)`; `return self`.
TraitNewSelf(w, t, a, self) ==
    IF self.err # "" THEN self
    ELSE IF a = <<>> /\ ~Validate(w, t, self.val) THEN Failed("ValidationError")
    ELSE Made(t, self.val)

\* Trait.__new__ once the defaults are resolved into a: `args and
\* cls.validate(args[0])`, then the dispatch of a marker or a Tuple on the
\* shape of its argument, or the instance of the class itself.
TraitNewResolved(w, t, a) ==
    IF a # <<>> /\ ~Validate(w, t, a[1]) THEN Failed("ValidationError")
    ELSE IF IsConstType(w.types[t].meta) \/ "Tuple" \in w.types[t].flags
    THEN IF a # <<>> THEN TypeCall(w, ObjectToWebtype(w, a[1]), <<a[1]>>)
         ELSE Failed("UnboundLocalError")  \* `self` is read before any assignment
    ELSE TraitNewSelf(w, t, a, NativeNew(w.types[t], a))

\* Trait.__new__.
TraitNew(w, t, args) == TraitNewResolved(w, t, ResolveDefaults(Schema(w, t), args))

\* Bool.__new__: the value itself is returned.
BoolNewResolved(w, t, a) ==
    IF ~Validate(w, t, a[1]) THEN Failed("ValidationError") ELSE Made(0, a[1])
BoolNew(w, t, args) ==
    BoolNewResolved(w, t, IF ResolveDefaults(Schema(w, t), args) = <<>>
                          THEN <<JBool(FALSE)>>
                          ELSE ResolveDefaults(Schema(w, t), args))

\* Null.__new__: nothing is returned.
NullNewResolved(w, t, a) ==
    IF a # <<>> /\ ~Validate(w, t, a[1]) THEN Failed("ValidationError")
    ELSE Made(0, JNull)
NullNew(w, t, args) == NullNewResolved(w, t, ResolveDefaults(Schema(w, t), args))

\* Dict.__new__.
DictNew(w, t, args) ==
    IF args = <<>> THEN TraitNew(w, t, ResolveDefaults(Schema(w, t), <<>>))
    ELSE IF ToDict(args[1]).err # "" THEN ToDict(args[1])
    ELSE TraitNew(w, t, <<ToDict(args[1]).val>>)

\* List.__new__: a tuple argument becomes a list.
ListNewResolved(w, t, a) ==
    IF a # <<>> /\ Kind(a[1]) = "tuple" THEN TraitNew(w, t, <<JList(a[1][2])>>)
    ELSE TraitNew(w, t, a)
ListNew(w, t, args) == ListNewResolved(w, t, ResolveDefaults(Schema(w, t), args))

\* cls.__new__(cls, *args), by the first __new__ of the resolution order.
New(w, t, args) ==
    CASE w.types[t].ctor = "_NoInit" -> Failed("TypeError")
      [] w.types[t].ctor = "Bool" -> BoolNew(w, t, args)
      [] w.types[t].ctor = "Null" -> NullNew(w, t, args)
      [] w.types[t].ctor = "Dict" -> DictNew(w, t, args)
      [] w.types[t].ctor = "List" -> ListNew(w, t, args)
             [] OTHER -> TraitNew(w, t, args)

\* cls(*args): type.__call__.
TypeCall(w, t, args) == TypeInit(w, t, args, New(w, t, args))

\* ------------------------------------------------ records and lists
\* The outcome of an operation on an instance: its contents afterwards and
\* the exception, if any.
Kept(val, e) == [val |-> val, err |-> e]

\* The relaxation left out: the schema as it is.
Unrelaxed(s) == s
\* `{**self._schema, "required": []}`.
Relaxed(s) == JDict(Upd(s[2], "required" :> JList(<<>>)))

\* `self._schema.get("properties", {})`.
PropertiesOf(s) == IF "properties" \in DOMAIN s[2] THEN s[2]["properties"][2] ELSE EmptyMap

\* Dict.__setitem__ on an instance with schema s and contents val.
DictSetItem(s, val, key, object) ==
    IF IF key \in DOMAIN PropertiesOf(s)
       THEN Valid(object, PropertiesOf(s)[key])
       ELSE Valid(JDict(key :> object), Relaxed(s))
    THEN Kept(JDict(Upd(val[2], key :> object)), "")
    ELSE Kept(val, "ValidationError")

\* Dict.update with one mapping argument.
DictUpdate(s, val, d) ==
    IF Valid(d, Relaxed(s)) THEN Kept(JDict(Upd(val[2], d[2])), "")
    ELSE Kept(val, "ValidationError")

\* Python's items[id] for an integer id: None when it is out of range.
Index(q, id) ==
    IF id >= 0 /\ id < Len(q) THEN id + 1
    ELSE IF id < 0 /\ -id <= Len(q) THEN Len(q) + id + 1
    ELSE 0

\* List._verify_item for an integer id: "" when the object passes, or the
\* exception.
VerifyItem(s, object, id) ==
    IF "items" \notin DOMAIN s[2] \/ ~Truthy(s[2]["items"]) THEN ""
    ELSE IF Kind(s[2]["items"]) = "dict"
    THEN IF Valid(object, s[2]["items"]) THEN "" ELSE "ValidationError"
    ELSE IF Kind(s[2]["items"]) = "list"
    THEN IF Index(s[2]["items"][2], id) = 0 THEN "IndexError"
         ELSE IF Valid(object, s[2]["items"][2][Index(s[2]["items"][2], id)]) THEN ""
         ELSE "ValidationError"
    ELSE ""

\* List.__setitem__, append and insert.
ListSetItem(s, val, id, object) ==
    IF VerifyItem(s, object, id) # "" THEN Kept(val, VerifyItem(s, object, id))
    ELSE IF Index(val[2], id) = 0 THEN Kept(val, "IndexError")
    ELSE Kept(JList([val[2] EXCEPT ![Index(val[2], id)] = object]), "")
ListAppend(s, val, object) ==
    IF VerifyItem(s, object, Len(val[2]) + 1) # ""
    THEN Kept(val, VerifyItem(s, object, Len(val[2]) + 1))
    ELSE Kept(JList(Append(val[2], object)), "")
ListInsert(s, val, id, object) ==
    IF VerifyItem(s, object, id) # "" THEN Kept(val, VerifyItem(s, object, id))
    ELSE LET q == val[2]
             n == IF id >= 0 THEN (IF id > Len(q) THEN Len(q) ELSE id)
                  ELSE (IF -id > Len(q) THEN 0 ELSE Len(q) + id)
         IN  Kept(JList(SubSeq(q, 1, n) \o <<object>> \o SubSeq(q, n + 1, Len(q))), "")

\* The part of a sequence of n elements that slice(id[1], id[2]) selects: the
\* elements after the first and up to the second number of the pair.
Span(n, id) ==
    LET lo == IF id[1] < 0 THEN (IF n + id[1] < 0 THEN 0 ELSE n + id[1])
              ELSE (IF id[1] > n THEN n ELSE id[1])
        hi == IF id[2] < 0 THEN (IF n + id[2] < 0 THEN 0 ELSE n + id[2])
              ELSE (IF id[2] > n THEN n ELSE id[2])
    IN  <<lo, IF hi < lo THEN lo ELSE hi>>

\* List._verify_item for a slice: the object is validated as an instance of
\* List[items], or of Tuple[...] of the schemas the slice selects; r is the
\* outcome of making that class.
SliceVerdict(r, object) ==
    IF r.err # "" THEN r.err
    ELSE IF Validate(r.w, r.ret, object) THEN "" ELSE "ValidationError"
\* No validation of a slice.
VerifySliceSkipped(w, s, object, id) == ""
VerifySlice(w, s, object, id) ==
    IF "items" \notin DOMAIN s[2] \/ ~Truthy(s[2]["items"]) THEN ""
    ELSE IF Kind(s[2]["items"]) \notin {"dict", "list"} THEN ""
    ELSE SliceVerdict(
             ListGetItem(w, Named(w, IF Kind(s[2]["items"]) = "dict" THEN "List" ELSE "Tuple"),
                 IF Kind(s[2]["items"]) = "dict" THEN s[2]["items"]
                 ELSE <<"tuple", SubSeq(s[2]["items"][2],
                                        Span(Len(s[2]["items"][2]), id)[1] + 1,
                                        Span(Len(s[2]["items"][2]), id)[2])>>),
             object)

\* List.__setitem__ for a slice, and extend; the object is a list.
ListSetSlice(w, s, val, id, object) ==
    IF VerifySlice(w, s, object, id) # "" THEN Kept(val, VerifySlice(w, s, object, id))
    ELSE Kept(JList(SubSeq(val[2], 1, Span(Len(val[2]), id)[1]) \o object[2]
                    \o SubSeq(val[2], Span(Len(val[2]), id)[2] + 1, Len(val[2]))), "")
ListExtend(w, s, val, object) ==
    IF VerifySlice(w, s, object, <<Len(val[2]), Len(val[2]) + 3>>) # ""
    THEN Kept(val, VerifySlice(w, s, object, <<Len(val[2]), Len(val[2]) + 3>>))
    ELSE Kept(JList(val[2] \o object[2]), "")

\* The built-in list.pop(*args): it takes at most one argument.
BuiltinPop(q, args) ==
    IF Len(args) > 1 THEN [val |-> q, ret |-> JNull, err |-> "TypeError"]
    ELSE IF Index(q, IF args = <<>> THEN -1 ELSE args[1]) = 0
    THEN [val |-> q, ret |-> JNull, err |-> "IndexError"]
    ELSE [val |-> [i \in 1..(Len(q) - 1) |->
                      IF i < Index(q, IF args = <<>> THEN -1 ELSE args[1])
                      THEN q[i] ELSE q[i + 1]],
          ret |-> q[Index(q, IF args = <<>> THEN -1 ELSE args[1])],
          err |-> ""]

\* List.pop: the item is put back when what remains is invalid.
ListPop(s, val, index, default) ==
    LET r == BuiltinPop(val[2], <<index, default>>)
    IN  IF r.err # "" THEN Kept(JList(r.val), r.err)
        ELSE IF Valid(JList(r.val), s) THEN Kept(JList(r.val), "")
        ELSE ListInsert(s, JList(r.val), index, r.ret)

\* ------------------------------------------------ observable records
\* A Link instance: its contents (val), `_depth`, `_registered_links` (links:
\* for each source its entries in insertion order, an entry being the dict of
\* targets registered for another instance or the list of callbacks registered
\* for the instance itself; `_registered_id` resolves hash to the instance),
\* `_deferred_changed` (changed) and `_deferred_prior` (prior).  None, an
\* empty dict and an empty list are all the falsy value.  A system is the
\* instances, the events the callbacks have been called with (log), the
\* exception being raised (err), the behaviour of munch.Munch.update and the
\* number of nested updates a handler may still make (calls).
Raising(S, e) == [S EXCEPT !.err = e]

\* self.get(key, None).
Get(val, key) == IF key \in DOMAIN val[2] THEN val[2][key] ELSE JNull
\* self.get(key, inspect._empty).
GetOrEmpty(val, key) == IF key \in DOMAIN val[2] THEN val[2][key] ELSE <<"_empty">>

\* The position of the entry of `hash` among the entries of a source, or 0.
EntryOf(entries, hash) ==
    IF \E i \in 1..Len(entries) : entries[i].hash = hash
    THEN CHOOSE i \in 1..Len(entries) : entries[i].hash = hash
    ELSE 0

\* Link.dlink on one instance.
DLinkEntries(entries, that, target, callable) ==
    IF EntryOf(entries, that) = 0
    THEN Append(entries, [hash |-> that, kind |-> "links",
                          items |-> <<[to |-> target, fn |-> callable]>>])
    ELSE LET i == EntryOf(entries, that)
             at == EntryOf([j \in 1..Len(entries[i].items) |->
                               [hash |-> entries[i].items[j].to]], target)
         IN  [entries EXCEPT ![i].items =
                 IF at = 0 THEN Append(@, [to |-> target, fn |-> callable])
                 ELSE [@ EXCEPT ![at].fn = callable]]
DLink(S, self, source, that, target, callable) ==
    LET entries == IF source \in DOMAIN S.recs[self].links
                   THEN S.recs[self].links[source] ELSE <<>>
    IN  IF EntryOf(entries, that) # 0 /\ entries[EntryOf(entries, that)].kind = "funcs"
        THEN Raising([S EXCEPT !.recs[self].links = Upd(@, source :> entries)], "TypeError")
        ELSE [S EXCEPT !.recs[self].links =
                 Upd(@, source :> DLinkEntries(entries, that, target, callable))]

\* Link.link.
Link(S, this, source, that, target) ==
    IF DLink(S, this, source, that, target, "").err # ""
    THEN DLink(S, this, source, that, target, "")
    ELSE DLink(DLink(S, this, source, that, target, ""), that, target, this, source, "")

\* Link.observe.
Observe(S, self, source, callable) ==
    LET entries == IF source \in DOMAIN S.recs[self].links
                   THEN S.recs[self].links[source] ELSE <<>>
        i == EntryOf(entries, self)
    IN  IF i # 0 /\ entries[i].kind = "links"
        THEN Raising([S EXCEPT !.recs[self].links = Upd(@, source :> entries)],
                     "AttributeError")
        ELSE [S EXCEPT !.recs[self].links = Upd(@, source :>
                 IF i = 0
                 THEN Append(entries, [hash |-> self, kind |-> "funcs",
                                       items |-> <<callable>>])
                 ELSE [entries EXCEPT ![i].items = Append(@, callable)])]

\* The counter left as it is.
EnterUncounted(S, self) == S
\* Link.__enter__.
Enter(S, self) == [S EXCEPT !.recs[self].depth = @ + 1]

\* Link.__exit__ and the rest of the protocol call each other.  `is` is
\* modelled by equality: the values written are small integers and None,
\* which Python keeps as single objects.  S.calls counts the nested updates
\* a handler may still make.  Three observations are kept for the handler as
\* a whole: S.low is the lowest value a depth counter took, `loops` of a
\* record is the number of its propagation loops that are running, and S.most
\* is the highest value that number took.
RECURSIVE Exit(_, _), Propagate(_, _, _, _), Loop(_, _), Hashes(_, _, _, _, _)
RECURSIVE Targets(_, _, _, _, _, _), LinkSetItem(_, _, _, _), LinkUpdate(_, _, _)
RECURSIVE MunchUpdate(_, _, _, _)

\* Link.__exit__: an exception on its way out is S.err.
Exit(S, self) ==
    IF S.recs[self].changed # <<>> /\ S.err = ""
    THEN Propagate([S EXCEPT !.recs[self].depth = @ - 1,
                             !.low = IF S.recs[self].depth - 1 < @
                                     THEN S.recs[self].depth - 1 ELSE @],
                   self, <<>>, EmptyMap)
    ELSE [S EXCEPT !.recs[self].depth = @ - 1,
                   !.low = IF S.recs[self].depth - 1 < @
                           THEN S.recs[self].depth - 1 ELSE @]

\* The calls of the callbacks registered for the instance itself.
Funcs(S, self, key, old, funcs) ==
    [S EXCEPT !.log = @ \o [j \in 1..Len(funcs) |->
        [func |-> funcs[j], new |-> Get(S.recs[self].val, key), old |-> old,
         object |-> self, name |-> key]]]

\* The loop over the targets registered for another instance.
Targets(S, self, key, hash, items, j) ==
    IF S.err # "" \/ j > Len(items) THEN S
    ELSE IF items[j].fn # ""
    THEN IF key \notin DOMAIN S.recs[self].val[2] THEN Raising(S, "KeyError")
         ELSE Targets(LinkUpdate(S, hash, <<<<items[j].to, JBool(FALSE)>>>>),
                      self, key, hash, items, j + 1)
    ELSE IF Get(S.recs[hash].val, items[j].to) = GetOrEmpty(S.recs[self].val, key)
    THEN Targets(S, self, key, hash, items, j + 1)
    ELSE Targets(LinkUpdate(S, hash, <<<<items[j].to, S.recs[self].val[2][key]>>>>),
                 self, key, hash, items, j + 1)

\* The loop over `self._registered_links[key]`.
Hashes(S, self, key, old, i) ==
    IF S.err # "" \/ i > Len(S.recs[self].links[key]) THEN S
    ELSE IF S.recs[self].links[key][i].hash # self
    THEN Hashes(Targets(S, self, key, S.recs[self].links[key][i].hash,
                        S.recs[self].links[key][i].items, 1), self, key, old, i + 1)
    ELSE IF S.recs[self].links[key][i].kind = "funcs"
    THEN Hashes(Funcs(S, self, key, old, S.recs[self].links[key][i].items),
                self, key, old, i + 1)
    ELSE Raising(S, "TypeError")

\* `while self._deferred_changed:` with key the name popped and old its prior.
LoopBody(S, self, key, old) ==
    IF DOMAIN S.recs[self].links = {} THEN S
    ELSE IF key \notin DOMAIN S.recs[self].links THEN Raising(S, "KeyError")
    ELSE Hashes(S, self, key, old, 1)
\* The loop taking the name queued first.
RECURSIVE LoopFifo(_, _)
LoopFifo(S, self) ==
    IF S.err # "" \/ S.recs[self].changed = <<>> THEN S
    ELSE LoopFifo(LoopBody([S EXCEPT !.recs[self].changed = Tail(@),
                                     !.recs[self].prior =
                                         Without(@, S.recs[self].changed[1])],
                           self, S.recs[self].changed[1],
                           Get(<<"dict", S.recs[self].prior>>, S.recs[self].changed[1])),
                  self)
Loop(S, self) ==
    IF S.err # "" \/ S.recs[self].changed = <<>> THEN S
    ELSE Loop(LoopBody([S EXCEPT !.recs[self].changed = SubSeq(@, 1, Len(@) - 1),
                                 !.recs[self].prior =
                                     Without(@, S.recs[self].changed[Len(S.recs[self].changed)])],
                       self, S.recs[self].changed[Len(S.recs[self].changed)],
                       Get(<<"dict", S.recs[self].prior>>,
                           S.recs[self].changed[Len(S.recs[self].changed)])),
              self)

\* Link._propagate.
Propagate(S, self, changed, prior) ==
    IF S.recs[self].depth > 0
    THEN [S EXCEPT !.recs[self].changed = IF @ # <<>> THEN @ ELSE changed,
                   !.recs[self].prior = Upd(prior, @)]
    ELSE Exit([Loop(Enter([S EXCEPT !.recs[self].changed = IF @ # <<>> THEN @ ELSE changed,
                                    !.recs[self].prior = Upd(prior, @),
                                    !.recs[self].loops = @ + 1,
                                    !.most = IF S.recs[self].loops + 1 > @
                                             THEN S.recs[self].loops + 1 ELSE @], self),
                    self) EXCEPT !.recs[self].loops = @ - 1], self)

\* The schema of the instances: they are all of the class Evented.
Evented == Named(Module, "Evented")

\* Link.__setitem__.
LinkSetItemWrote(S, self, key, object, prior, r) ==
    IF r.err = "" /\ object # prior
    THEN Propagate([S EXCEPT !.recs[self].val = r.val], self, <<key>>, key :> prior)
    ELSE [S EXCEPT !.recs[self].val = r.val, !.err = r.err]
LinkSetItem(S, self, key, object) ==
    Exit(LinkSetItemWrote(Enter(S, self), self, key, object, Get(S.recs[self].val, key),
             DictSetItem(Schema(Module, Evented), S.recs[self].val, key, object)),
         self)

\* munch.Munch.update, which Dict.update calls once the mapping is valid:
\* the releases of the library differ in whether it is dict.update or a loop
\* of `self[k] = v`.
MunchUpdate(S, self, args, i) ==
    IF S.err # "" \/ i > Len(args) THEN S
    ELSE IF S.munch = "dict"
    THEN MunchUpdate([S EXCEPT !.recs[self].val[2] = Upd(@, args[i][1] :> args[i][2])],
                     self, args, i + 1)
    ELSE MunchUpdate(LinkSetItem(S, self, args[i][1], args[i][2]), self, args, i + 1)

\* dict(pairs), as a value.
AsDict(args) ==
    JDict([k \in {args[i][1] : i \in 1..Len(args)} |->
              args[CHOOSE i \in 1..Len(args) :
                       /\ args[i][1] = k
                       /\ \A j \in (i + 1)..Len(args) : args[j][1] # k][2]])

\* The names of `prior` in Link.update that are left after its filter, in the
\* order of the mapping, and their prior values; was is the instance before.
Changed(was, now, args) ==
    SelectSeq([i \in 1..Len(args) |-> args[i][1]],
              LAMBDA k : /\ k \in DOMAIN was[2]
                         /\ was[2][k] # GetOrEmpty(now, k))

\* Link.update.
LinkUpdated(S, self, args, was) ==
    IF S.err = "" /\ Changed(was, S.recs[self].val, args) # <<>>
    THEN Propagate(S, self, Changed(was, S.recs[self].val, args),
                   [k \in {Changed(was, S.recs[self].val, args)[i] :
                              i \in 1..Len(Changed(was, S.recs[self].val, args))}
                       |-> was[2][k]])
    ELSE S
LinkUpdate(S, self, args) ==
    IF S.calls = 0 THEN Raising(S, "RecursionError")
    ELSE IF ~Valid(AsDict(args), Relaxed(Schema(Module, Evented)))
    THEN Raising(S, "ValidationError")
    ELSE Exit(LinkUpdated(MunchUpdate(Enter([S EXCEPT !.calls = @ - 1], self), self, args, 1),
                          self, args, S.recs[self].val),
              self)

\* ------------------------------------------------ composing Types
\* The caller composes Types out of the classes it holds: some classes of the
\* module and every class an operation has returned.  MaxOps bounds the
\* operations on classes (compositions and calls), MaxUses the operations on
\* the instance a call has returned.
MaxOps == 2
MaxUses == 2

Workbench == {Named(Module, n) : n \in {"Integer", "Dict", "Properties", "Required"}}
Other == Named(Module, "String")

world == World(heap, types)

InitTypes ==
    /\ heap = Module.heap
    /\ types = Module.types
    /\ held = Workbench
    /\ last = [op |-> "import", t |-> 0, o |-> JNull, ret |-> 0, err |-> ""]
    /\ nops = 0
    /\ inst = Failed("unmade")
    /\ nuses = 0
    /\ recs = <<>>
    /\ log = <<>>
    /\ munch = "dict"

Returns(r, op, t, o) ==
    /\ nops < MaxOps
    /\ heap' = r.w.heap
    /\ types' = r.w.types
    /\ held' = IF r.ret # 0 THEN held \cup {r.ret} ELSE held
    /\ last' = [op |-> op, t |-> t, o |-> o, ret |-> r.ret, err |-> r.err]
    /\ nops' = nops + 1
    /\ UNCHANGED <<inst, nuses, recs, log, munch>>

\* The outcome of a call: the instance, or the exception.
Called(r, t, args) ==
    /\ nops < MaxOps
    /\ inst' = r
    /\ last' = [op |-> "call", t |-> t, o |-> args, ret |-> 0, err |-> r.err]
    /\ nops' = nops + 1
    /\ UNCHANGED <<heap, types, held, nuses, recs, log, munch>>

DoCreate(kws) == \E t \in held, kw \in kws :
    Returns(Create(world, t, <<"New">>, kw), "create", t, JDict(kw))
DoAdd(others) == \E t \in held, u \in others :
    Returns(Add(world, t, <<"type", u>>), "add", t, <<"type", u>>)
DoGetItem(classes, objects) == \E t \in classes, o \in objects :
    /\ types[t].meta \in {"_ConstType", "_ContainerType", "_ObjectSchema", "_ListSchema"}
    /\ Returns(GetItem(world, t, o), "getitem", t, o)
DoGe(objects) == \E t \in held, o \in objects :
    /\ types[t].meta \in {"_NumericSchema", "_StringSchema", "_ListSchema"}
    /\ Returns(Ge(world, t, o), "ge", t, o)
DoNeg == \E t \in held :
    Returns(Neg(world, t), "neg", t, JNull)
DoAnd == \E t \in held, u \in {Other} :
    Returns(And(world, t, <<"type", u>>), "and", t, <<"type", u>>)
DoSub == \E t \in held, u \in {Other} :
    Returns(Sub(world, t, <<"type", u>>), "sub", t, <<"type", u>>)
DoOr == \E t \in held, u \in {Other} :
    Returns(Or(world, t, <<"type", u>>), "or", t, <<"type", u>>)
DoSubclass(annotations) == \E t \in held, ann \in annotations :
    /\ "_Object" \in types[t].flags
    /\ Returns(Subclass(world, t, <<"Sub">>, ann, {}), "class", t, JNull)

\* cls(*args) for a class the caller holds.
DoCall(argss) == \E t \in held, args \in argss :
    Called(TypeCall(world, t, args), t, args)

NextTypes ==
    \/ DoCreate({"minimum" :> JStr("x"), "type" :> JStr("string")})
    \/ DoAdd(held \cup {Other})
    \/ DoGetItem(held, { <<"dict", "a" :> <<"py", "int">>>>,
                         <<"dict", "b" :> <<"type", Other>>>>,
                         <<"tuple", <<JStr("a")>>>>,
                         <<"tuple", <<JStr("b")>>>> })
    \/ DoGe({JInt(1), JStr("x")})
    \/ DoNeg \/ DoAnd \/ DoSub \/ DoOr
    \/ DoSubclass({ [order |-> <<"c">>, of |-> "c" :> <<"py", "str">>] })

SpecTypes == InitTypes /\ [][NextTypes]_vars

\* C1: every class of the interpreter, the module's and every one a
\* declaration, create or a composition operator has made, has a schema that
\* is valid against the Draft-07 meta-schema; a creation that raises returns
\* no class.
EveryTypeIsValid ==
    /\ \A i \in 1..Len(types) : MetaValid(Schema(world, i))
    /\ last.err # "" => last.ret = 0
\* C1: a class has been composed and the creation after it was refused.
InvalidCreationRaised ==
    /\ last.err = "ValidationError"
    /\ Cardinality(held) > Cardinality(Workbench)

\* C6: the schema of T + U is the schema of T overridden, keyword by keyword,
\* by the schema of U, `type` included.
AddOperandWins ==
    (last.op = "add" /\ last.ret # 0) =>
        Schema(world, last.ret) =
            JDict(Upd(Schema(world, last.t)[2], Schema(world, last.o[2])[2]))

\* C7: no operation changes the class object or the schema, at any depth, of
\* a class that exists when it starts.
ExistingSchemasKept ==
    [][\A i \in 1..Len(types) :
           /\ types'[i] = types[i]
           /\ Deref(heap', types[i].schema) = Deref(heap, types[i].schema)]_vars
\* C7: a record class was declared with an annotation, which updates the
\* schema of the new class in place.
AnnotatedSubclassDeclared == last.op = "class" /\ last.ret # 0

\* C8: the bracket of a container marker that already holds a value for its
\* keyword extends that value: a mapping gets the new entries on top of the
\* old, a sequence gets the new elements after the old.
BracketExtends ==
    (/\ last.op = "getitem" /\ last.ret # 0
     /\ types[last.t].meta = "_ContainerType"
     /\ LowerKey(types[last.t].name) \in DOMAIN Schema(world, last.t)[2]) =>
        LET key == LowerKey(types[last.t].name)
            old == Schema(world, last.t)[2][key]
            new == Deref(Typeish(world, last.o).h, Typeish(world, last.o).v)
        IN  Schema(world, last.ret)[2][key] =
                IF Kind(old) = "dict" /\ Kind(new) = "dict"
                THEN JDict([k \in DOMAIN old[2] \cup DOMAIN new[2] |->
                               IF k \in DOMAIN new[2] THEN new[2][k] ELSE old[2][k]])
                ELSE IF Kind(old) = "list" /\ Kind(new) = "list"
                THEN JList(old[2] \o new[2])
                ELSE new

\* ------------------------------------------------ calling Types
\* The caller composes Types with brackets, bounds and additions, and calls
\* the classes it holds with no argument or with one value.
NewBench == {Named(Module, n) : n \in {"Integer", "Dict", "List", "Tuple", "Bool"}}

InitNew ==
    /\ heap = Module.heap
    /\ types = Module.types
    /\ held = NewBench
    /\ last = [op |-> "import", t |-> 0, o |-> JNull, ret |-> 0, err |-> ""]
    /\ nops = 0
    /\ inst = Failed("unmade")
    /\ nuses = 0
    /\ recs = <<>>
    /\ log = <<>>
    /\ munch = "dict"

\* The caller keeps what the call returned.

NextNew ==
    \/ DoGetItem({Named(Module, n) : n \in {"AnyOf", "Not", "Enum", "Default", "Required"}},
                 { <<"tuple", <<<<"py", "int">>, <<"type", Other>>>>>>,
                   <<"type", Other>>,
                   JInt(5),
                   <<"tuple", <<JStr("a")>>>> })
    \/ DoGe({JInt(5)})
    \/ DoAdd(held \ NewBench)
    \/ DoCall({ <<>>, <<JInt(5)>>, <<JStr("a")>>, <<JBool(TRUE)>>, <<JNull>>,
                <<<<"tuple", <<JInt(5)>>>>>>, <<JList(<<JStr("a")>>)>>,
                <<JDict("a" :> JInt(5))>> })

SpecNew == InitNew /\ [][NextNew]_vars

\* C4: a class made by a bracket of Not, AnyOf, AllOf, OneOf or Enum, called
\* with a value that satisfies its schema, returns the value as an instance of
\* the native class of the value's shape (a record, a text, a list, a flag, a
\* number, None) and not an instance of the combinator; called with a value
\* that fails its schema it raises ValidationError.
CombinatorReturnsNative ==
    LET Is(n, t) == /\ t # Named(world, n)
                    /\ \E i \in 1..Len(types[t].mro) : types[t].mro[i] = Named(world, n)
        cls(n) == Named(world, n)
        v == last.o[1]
    IN  (/\ last.op = "call" /\ last.o # <<>>
         /\ \E n \in {"Not", "AnyOf", "AllOf", "OneOf", "Enum"} : Is(n, last.t)) =>
            IF Valid(v, Schema(world, last.t))
            THEN /\ inst.err = ""
                 /\ inst.cls # last.t
                 /\ CASE Kind(v) = "dict" -> inst.cls = cls("Dict") /\ inst.val = v
                      [] Kind(v) = "str" -> inst.cls = cls("String") /\ inst.val = v
                      [] Kind(v) \in {"list", "tuple"} ->
                            /\ inst.cls \in {cls("List"), cls("Tuple")}
                            /\ inst.val = JList(v[2])
                      [] Kind(v) = "bool" -> inst.cls = 0 /\ inst.val = v
                      [] Kind(v) = "int" ->
                            /\ inst.cls \in {cls("Integer"), cls("Float")}
                            /\ Kind(inst.val) \in {"int", "float"}
                            /\ inst.val[2] = v[2]
                      [] Kind(v) = "null" -> inst.cls = 0 /\ inst.val = JNull
            ELSE inst.err = "ValidationError"
\* C4: a class made by a bracket of Not was called with a number its schema
\* accepts.
CombinatorCalled ==
    /\ last.op = "call" /\ last.o # <<>>
    /\ last.t # Named(world, "Not")
    /\ \E i \in 1..Len(types[last.t].mro) : types[last.t].mro[i] = Named(world, "Not")
    /\ inst.err = "" /\ inst.cls = Named(world, "Float")

\* C5: a call with no argument returns the declared default, literal or per
\* property, or else an empty or zero value, and raises ValidationError only
\* when the declared defaults are themselves invalid.
NoInputYieldsDefault ==
    LET s == Schema(world, last.t)
        declares ==
            \/ "default" \in DOMAIN s[2]
            \/ /\ "properties" \in DOMAIN s[2]
               /\ \E p \in DOMAIN s[2]["properties"][2] :
                      "default" \in DOMAIN s[2]["properties"][2][p][2]
    IN  (last.op = "call" /\ last.o = <<>>) =>
            IF declares
            THEN \/ inst.err = "" /\ inst.val = ResolveDefaults(s, <<>>)[1]
                 \/ /\ inst.err = "ValidationError"
                    /\ ~Valid(ResolveDefaults(s, <<>>)[1], s)
            ELSE /\ inst.err = ""
                 /\ inst.val \in {JInt(0), <<"float", 0>>, JStr(""), JBool(FALSE), JNull,
                                  JList(<<>>), JDict(EmptyMap), <<"object">>}

\* ------------------------------------------------ using a record
\* The caller declares record classes, calls one and writes to the instance.

InitDict ==
    /\ heap = Module.heap
    /\ types = Module.types
    /\ held = {Named(Module, "Dict")}
    /\ last = [op |-> "import", t |-> 0, o |-> JNull, ret |-> 0, err |-> ""]
    /\ nops = 0
    /\ inst = Failed("unmade")
    /\ nuses = 0
    /\ recs = <<>>
    /\ log = <<>>
    /\ munch = "dict"

\* The instance after an operation on it.
Used(r, op, o) ==
    /\ nuses < MaxUses
    /\ inst' = [inst EXCEPT !.val = r.val]
    /\ last' = [op |-> op, t |-> inst.cls, o |-> o, ret |-> 0, err |-> r.err]
    /\ nuses' = nuses + 1
    /\ UNCHANGED <<heap, types, held, nops, recs, log, munch>>

\* The caller holds an instance of a class with this built-in.
Holds(native) == inst.err = "" /\ inst.cls # 0 /\ types[inst.cls].native = native

DoSetItem == \E key \in {"a", "b"}, object \in {JInt(5), JStr("a")} :
    /\ Holds("dict")
    /\ Used(DictSetItem(Schema(world, inst.cls), inst.val, key, object),
            "setitem", <<key, object>>)
DoUpdate == \E key \in {"a", "b"}, object \in {JInt(5), JStr("a")} :
    /\ Holds("dict")
    /\ Used(DictUpdate(Schema(world, inst.cls), inst.val, JDict(key :> object)),
            "update", <<key, object>>)

NextDict ==
    \/ DoSubclass({ [order |-> <<"a">>, of |-> "a" :> <<"py", "int">>] })
    \/ DoGetItem(held, { <<"dict", "a" :> <<"py", "int">>>>, <<"type", Other>> })
    \/ DoCall({ <<>>, <<JDict("a" :> JInt(5))>>, <<JDict("b" :> JStr("a"))>> })
    \/ DoSetItem
    \/ DoUpdate

SpecDict == InitDict /\ [][NextDict]_vars

\* C9: a single-key write succeeds exactly when the key is a declared
\* property and the value satisfies its sub-schema, or the key is undeclared
\* and {key: value} satisfies the schema with `required` emptied; a write that
\* does not succeed raises ValidationError and leaves the contents as they
\* were.
WriteValidatesTheValue ==
    [][last'.op = "setitem" =>
          LET s == Schema(world, inst.cls)[2]
              key == last'.o[1]
              object == last'.o[2]
              declared == "properties" \in DOMAIN s /\ key \in DOMAIN s["properties"][2]
              emptied == JDict([k \in DOMAIN s \cup {"required"} |->
                                   IF k = "required" THEN JList(<<>>) ELSE s[k]])
          IN  IF \/ declared /\ Valid(object, s["properties"][2][key])
                 \/ ~declared /\ Valid(JDict(key :> object), emptied)
              THEN /\ last'.err = ""
                   /\ inst'.val = JDict([k \in DOMAIN inst.val[2] \cup {key} |->
                                            IF k = key THEN object ELSE inst.val[2][k]])
              ELSE last'.err = "ValidationError" /\ inst'.val = inst.val]_vars
\* C9: an undeclared key was written to a record whose class requires a key.
UndeclaredKeyWritten ==
    /\ last.op = "setitem" /\ last.err = ""
    /\ "required" \in DOMAIN Schema(world, inst.cls)[2]
    /\ last.o[1] \notin DOMAIN PropertiesOf(Schema(world, inst.cls))

\* ------------------------------------------------ using a list
\* The caller composes list classes, calls one and changes the instance.

InitList ==
    /\ heap = Module.heap
    /\ types = Module.types
    /\ held = {Named(Module, "List"), Named(Module, "Tuple")}
    /\ last = [op |-> "import", t |-> 0, o |-> JNull, ret |-> 0, err |-> ""]
    /\ nops = 0
    /\ inst = Failed("unmade")
    /\ nuses = 0
    /\ recs = <<>>
    /\ log = <<>>
    /\ munch = "dict"

DoListSetItem == \E id \in {-1, 0, 1}, object \in {JInt(5), JStr("a")} :
    /\ Holds("list")
    /\ Used(ListSetItem(Schema(world, inst.cls), inst.val, id, object),
            "setitem", <<id, object>>)
DoAppend == \E object \in {JInt(5), JStr("a")} :
    /\ Holds("list")
    /\ Used(ListAppend(Schema(world, inst.cls), inst.val, object), "append", <<object>>)
DoInsert == \E id \in {-1, 0, 1}, object \in {JInt(5), JStr("a")} :
    /\ Holds("list")
    /\ Used(ListInsert(Schema(world, inst.cls), inst.val, id, object),
            "insert", <<id, object>>)
DoSetSlice == \E id \in {<<0, 1>>, <<1, 3>>, <<-1, 2>>},
                 object \in {JList(<<JInt(5)>>), JList(<<JStr("a")>>),
                             JList(<<JInt(5), JStr("a")>>)} :
    /\ Holds("list")
    /\ Used(ListSetSlice(world, Schema(world, inst.cls), inst.val, id, object),
            "setslice", <<id, object>>)
DoExtend == \E object \in {JList(<<JInt(5)>>), JList(<<JStr("a")>>),
                           JList(<<JInt(5), JStr("a")>>)} :
    /\ Holds("list")
    /\ Used(ListExtend(world, Schema(world, inst.cls), inst.val, object),
            "extend", <<object>>)
\* pop() and pop(index): the parameters default to -1 and None.
DoPop == \E index \in {-1, 0, 1} :
    /\ Holds("list")
    /\ Index(inst.val[2], index) # 0
    /\ Used(ListPop(Schema(world, inst.cls), inst.val, index, JNull), "pop", <<index>>)

NextList ==
    \/ DoGetItem(held, { <<"type", Named(Module, "Integer")>>,
                         <<"tuple", <<<<"py", "int">>, <<"type", Other>>>>>> })
    \/ DoGe({JInt(1)})
    \/ DoCall({ <<>>, <<JList(<<JInt(1)>>)>>, <<JList(<<JInt(1), JStr("a")>>)>> })
    \/ DoCreate({"items" :> JList(<<JDict("type" :> JStr("integer")),
                                     JDict("type" :> JStr("string"))>>)})
    \/ DoListSetItem \/ DoAppend \/ DoInsert \/ DoPop \/ DoSetSlice \/ DoExtend

SpecList == InitList /\ [][NextList]_vars

\* C10: pop at a valid position raises no error and leaves the list without
\* that element when the shortened list is valid for its class, and with its
\* original elements in their order when it is not.
PopRemovesOrRestores ==
    [][last'.op = "pop" =>
          LET q == inst.val[2]
              at == Index(q, last'.o[1])
              shortened == [i \in 1..(Len(q) - 1) |-> IF i < at THEN q[i] ELSE q[i + 1]]
          IN  /\ last'.err = ""
              /\ inst'.val = IF Valid(JList(shortened), Schema(world, inst.cls))
                             THEN JList(shortened) ELSE inst.val]_vars

\* C12: in a list whose class declares `items` as one schema, every element
\* satisfies that schema after every operation; an index assignment, slice
\* assignment, append, insert or extend that brings an element that violates
\* the schema raises ValidationError and leaves the list as it was.
ItemsSatisfySchema ==
    [][(/\ nuses' = nuses + 1
        /\ "items" \in DOMAIN Schema(world, inst.cls)[2]
        /\ Kind(Schema(world, inst.cls)[2]["items"]) = "dict")
       => /\ \A i \in 1..Len(inst'.val[2]) :
                Valid(inst'.val[2][i], Schema(world, inst.cls)[2]["items"])
          /\ (\/ /\ last'.op \in {"setitem", "append", "insert"}
                 /\ ~Valid(last'.o[Len(last'.o)], Schema(world, inst.cls)[2]["items"])
              \/ /\ last'.op \in {"setslice", "extend"}
                 /\ \E i \in 1..Len(last'.o[Len(last'.o)][2]) :
                       ~Valid(last'.o[Len(last'.o)][2][i],
                              Schema(world, inst.cls)[2]["items"]))
             => last'.err = "ValidationError" /\ inst'.val = inst.val]_vars
\* C12: a slice assignment of a list with a violating element to a list of
\* integers that has an element was refused.
ViolatingSliceRefused ==
    /\ last.op = "setslice" /\ last.err = "ValidationError"
    /\ Holds("list")
    /\ "items" \in DOMAIN Schema(world, inst.cls)[2]
    /\ Kind(Schema(world, inst.cls)[2]["items"]) = "dict"
    /\ Len(inst.val[2]) > 0
    /\ last.o[2] = JList(<<JInt(5), JStr("a")>>)

\* C16: in a list whose class declares `items` as a sequence of schemas, an
\* index assignment, insert or append that raises nothing on a list whose
\* elements satisfy the schemas of their positions leaves a list whose
\* elements satisfy the schemas of their positions.
PositionsSatisfySchemas ==
    [][(/\ nuses' = nuses + 1
        /\ last'.op \in {"setitem", "insert", "append"}
        /\ last'.err = ""
        /\ "items" \in DOMAIN Schema(world, inst.cls)[2]
        /\ Kind(Schema(world, inst.cls)[2]["items"]) = "list"
        /\ \A i \in 1..Len(inst.val[2]) :
              i <= Len(Schema(world, inst.cls)[2]["items"][2])
              => Valid(inst.val[2][i], Schema(world, inst.cls)[2]["items"][2][i]))
       => \A i \in 1..Len(inst'.val[2]) :
             i <= Len(Schema(world, inst.cls)[2]["items"][2])
             => Valid(inst'.val[2][i], Schema(world, inst.cls)[2]["items"][2][i])]_vars

\* ------------------------------------------------ using observable records
\* Two instances of Evented, X and Y, made with no arguments; the caller
\* links them, observes them with `print`, and writes to them.
MaxEvents == 4
MaxCalls == 4
X == 1
Y == 2
LinkKeys == {"a", "b"}
LinkValues == {JInt(1), JInt(2), JNull}

InitLink ==
    /\ heap = Module.heap
    /\ types = Module.types
    /\ held = {Evented}
    /\ last = [op |-> "import", t |-> 0, o |-> JNull, ret |-> 0, err |-> ""]
    /\ nops = 0
    /\ inst = TypeCall(Module, Evented, <<>>)
    /\ nuses = 0
    /\ recs = [i \in {X, Y} |->
                  [val |-> inst.val, depth |-> 0, links |-> EmptyMap, changed |-> <<>>,
                   prior |-> EmptyMap, loops |-> 0]]
    /\ log = <<>>
    /\ munch \in {"dict", "setitem"}

\* The system a handler starts from, and the system it leaves.
Now == [recs |-> recs, log |-> log, err |-> "", munch |-> munch, calls |-> MaxCalls,
        low |-> 0, most |-> 0]
Handled(S, op, self, o) ==
    /\ nuses < MaxEvents
    /\ recs' = S.recs
    /\ log' = S.log
    /\ last' = [op |-> op, t |-> self, o |-> o, ret |-> 0, err |-> S.err,
                low |-> S.low, most |-> S.most]
    /\ nuses' = nuses + 1
    /\ UNCHANGED <<heap, types, held, nops, inst, munch>>

DoLink == \E this \in {X, Y}, that \in {X, Y}, source \in LinkKeys, target \in LinkKeys :
    /\ this # that
    /\ Handled(Link(Now, this, source, that, target), "link", this, <<source, that, target>>)
DoObserve == \E self \in {X, Y}, source \in LinkKeys :
    Handled(Observe(Now, self, source, "print"), "observe", self, <<source>>)
DoLinkSetItem == \E self \in {X, Y}, key \in LinkKeys, object \in LinkValues :
    Handled(LinkSetItem(Now, self, key, object), "setitem", self, <<key, object>>)
DoLinkUpdate == \E self \in {X, Y}, key \in LinkKeys, object \in LinkValues :
    Handled(LinkUpdate(Now, self, <<<<key, object>>>>), "update", self, <<key, object>>)

\* dlink with a transform, `t`.
DoDLink == \E self \in {X, Y}, that \in {X, Y}, source \in LinkKeys, target \in LinkKeys :
    /\ self # that
    /\ Handled(DLink(Now, self, source, that, target, "t"), "dlink", self,
               <<source, that, target>>)
\* update with two fields, in either order.
DoLinkUpdateMany == \E self \in {X, Y}, keys \in {<<"a", "b">>, <<"b", "a">>},
                       v \in {JInt(1), JInt(2)}, w \in {JInt(1), JInt(2)} :
    Handled(LinkUpdate(Now, self, <<<<keys[1], v>>, <<keys[2], w>>>>), "updates", self,
            <<<<keys[1], v>>, <<keys[2], w>>>>)

NextLink ==
    \/ DoLink \/ DoObserve \/ DoLinkSetItem \/ DoLinkUpdate \/ DoLinkUpdateMany

SpecLink == InitLink /\ [][NextLink]_vars

\* The caller observes the instances, links them in one direction with a
\* transform, writes to them and updates two fields at once.
NextBulk ==
    \/ DoObserve \/ DoDLink \/ DoLinkSetItem \/ DoLinkUpdateMany

SpecBulk == InitLink /\ [][NextBulk]_vars


\* C2: once X.a and Y.b are linked and the instances have no other links,
\* every write or bulk update of X.a or of Y.b that returns leaves X.a and Y.b
\* holding the value written.
LinkedFieldsAgree ==
    (/\ recs[X].links = "a" :> <<[hash |-> Y, kind |-> "links",
                                 items |-> <<[to |-> "b", fn |-> ""]>>]>>
     /\ recs[Y].links = "b" :> <<[hash |-> X, kind |-> "links",
                                 items |-> <<[to |-> "a", fn |-> ""]>>]>>
     /\ last.op \in {"setitem", "update"}
     /\ last.err = ""
     /\ <<last.t, last.o[1]>> \in {<<X, "a">>, <<Y, "b">>})
    => /\ Get(recs[X].val, "a") = last.o[2]
       /\ Get(recs[Y].val, "b") = last.o[2]

\* C3: when `print` is registered once by observe on a field of an instance,
\* a single-key write to that field of a value that is not its current value
\* calls `print` for that field exactly once, with new the value written, old
\* the value held before the write (None when it was unset), object the
\* instance and name the field.
CallbackCalledOnce ==
    [][\A self \in {X, Y}, f \in LinkKeys :
          (/\ nuses' = nuses + 1
           /\ last'.op = "setitem"
           /\ last'.t = self
           /\ last'.o[1] = f
           /\ last'.o[2] # Get(recs[self].val, f)
           /\ f \in DOMAIN recs[self].links
           /\ \E i \in 1..Len(recs[self].links[f]) :
                 recs[self].links[f][i] =
                     [hash |-> self, kind |-> "funcs", items |-> <<"print">>])
          => SelectSeq(SubSeq(log', Len(log) + 1, Len(log')),
                       LAMBDA e : e.object = self /\ e.name = f)
             = <<[func |-> "print", new |-> last'.o[2],
                  old |-> Get(recs[self].val, f), object |-> self, name |-> f]>>]_vars

\* C11: when a transform t is registered by dlink from a field of one
\* instance to a field of the other, a write to the source field of a value
\* that is not its current value leaves t(value) in the target field; t is
\* taken to wrap its argument in a list.
TransformStored ==
    [][\A self \in {X, Y}, source \in LinkKeys, target \in LinkKeys :
          (/\ nuses' = nuses + 1
           /\ last'.op = "setitem"
           /\ last'.t = self
           /\ last'.o[1] = source
           /\ last'.o[2] # Get(recs[self].val, source)
           /\ source \in DOMAIN recs[self].links
           /\ \E i \in 1..Len(recs[self].links[source]) :
                 /\ recs[self].links[source][i].hash = 3 - self
                 /\ recs[self].links[source][i].kind = "links"
                 /\ \E j \in 1..Len(recs[self].links[source][i].items) :
                       recs[self].links[source][i].items[j] = [to |-> target, fn |-> "t"])
          => Get(recs'[3 - self].val, target) = JList(<<last'.o[2]>>)]_vars

\* C13: after a write that raises nothing, every field of a record whose
\* value the write changed and that has `print` registered by observe has an
\* event of that write in the log.
ChangedFieldsNotified ==
    [][(nuses' = nuses + 1 /\ last'.op \in {"setitem", "update", "updates"}
        /\ last'.err = "")
       => \A self \in {X, Y}, f \in LinkKeys :
             (/\ Get(recs'[self].val, f) # Get(recs[self].val, f)
              /\ f \in DOMAIN recs[self].links
              /\ \E i \in 1..Len(recs[self].links[f]) :
                    recs[self].links[f][i] =
                        [hash |-> self, kind |-> "funcs", items |-> <<"print">>])
             => \E n \in (Len(log) + 1)..Len(log') :
                   log'[n].object = self /\ log'[n].name = f]_vars

\* C14: when an update of two fields that are set, both to other values,
\* queues both (Munch.update being dict.update, nothing pending before) and
\* both have `print` registered by observe, the field named second in the
\* update is notified first and the field named first after it.
LastQueuedFirst ==
    [][\A self \in {X, Y} :
          (/\ nuses' = nuses + 1
           /\ last'.op = "updates" /\ last'.t = self /\ last'.err = ""
           /\ munch = "dict"
           /\ recs[self].changed = <<>>
           /\ \A k \in 1..2 :
                 /\ last'.o[k][1] \in DOMAIN recs[self].val[2]
                 /\ last'.o[k][2] # recs[self].val[2][last'.o[k][1]]
                 /\ last'.o[k][1] \in DOMAIN recs[self].links
                 /\ \E i \in 1..Len(recs[self].links[last'.o[k][1]]) :
                       recs[self].links[last'.o[k][1]][i] =
                           [hash |-> self, kind |-> "funcs", items |-> <<"print">>])
          => \E n \in (Len(log) + 1)..Len(log') :
                /\ log'[n].object = self /\ log'[n].name = last'.o[2][1]
                /\ \E m \in (n + 1)..Len(log') :
                      log'[m].object = self /\ log'[m].name = last'.o[1][1]
                /\ \A m \in (Len(log) + 1)..n :
                      ~(log'[m].object = self /\ log'[m].name = last'.o[1][1])]_vars
\* C14: an update of two fields returned with the second field's event
\* followed by the first field's event.
BothNotifiedInTurn ==
    /\ last.op = "updates" /\ last.err = "" /\ munch = "dict"
    /\ Len(log) = 2
    /\ log[1].object = last.t /\ log[1].name = last.o[2][1]
    /\ log[1].old # JNull /\ log[1].new # log[1].old
    /\ log[2].object = last.t /\ log[2].name = last.o[1][1]
    /\ log[2].old # JNull /\ log[2].new # log[2].old

\* C15: no depth counter went below 0 during an operation, every depth
\* counter is 0 once the operation has returned or raised, and no instance
\* had two propagation loops running at once.
DepthCounterSafe ==
    last.op # "import"
    => /\ last.low = 0
       /\ last.most <= 1
       /\ \A self \in {X, Y} : recs[self].depth = 0 /\ recs[self].loops = 0
\* C15: a write returned whose value was replaced, while the instance was
\* propagating it, by a write that came back through two transforms.
WrittenWhilePropagating ==
    /\ last.op = "setitem" /\ last.err = "" /\ last.most = 1
    /\ last.o[2] = JInt(1)
    /\ Get(recs[last.t].val, last.o[1]) = JBool(FALSE)

\* C17: on an instance with subscribers registered for some field, a write
\* to another field that has none raises nothing, stores the value, calls no
\* callback and leaves the other instance as it was.
UnsubscribedWriteCompletes ==
    [][\A self \in {X, Y} :
          (/\ nuses' = nuses + 1
           /\ last'.op = "setitem" /\ last'.t = self
           /\ DOMAIN recs[self].links # {}
           /\ last'.o[1] \notin DOMAIN recs[self].links)
          => /\ last'.err = ""
             /\ Get(recs'[self].val, last'.o[1]) = last'.o[2]
             /\ log' = log
             /\ recs'[3 - self].val = recs[3 - self].val]_vars

\* C18: with links that have no transform, every operation ends without
\* running out of nested calls, with the queue of changed names of both
\* instances empty and both depth counters 0.
PropagationSettles ==
    last.op # "import"
    => /\ last.err # "RecursionError"
       /\ \A self \in {X, Y} : recs[self].changed = <<>> /\ recs[self].depth = 0

====
